---- MODULE Spec2Model ----
(***************************************************************************)
(* The two sketches of BatteryMonitor.ino: sketch 1 is lines 1-684 (pages  *)
(* off, gauge, bars, text), sketch 2 is lines 686-1537 (pages power,       *)
(* cells, bms).  One behaviour of the model runs one sketch, chosen at     *)
(* power-up; one step is one iteration of that sketch's loop().            *)
(*                                                                         *)
(* The button block of loop() reads no telemetry and the page functions    *)
(* read nothing of the button block but hits, so the two are followed by   *)
(* two specifications over the same variables.  Spec follows the button,   *)
(* the pages and the contrast with the bus silent: time is millis() in     *)
(* milliseconds, and the time a tick takes and the level of the button pin *)
(* are inputs of each tick.  SpecTel follows the telemetry: the frame the  *)
(* CAN controller holds, what the button block does to hits, and the       *)
(* values of the locals that are read unassigned are inputs of each tick.  *)
(* SpecWide is SpecTel on a bus that carries more frames, and it follows   *)
(* the Current Limit rows of the bms page as well.                         *)
(*                                                                         *)
(* The float expressions of the page functions are evaluated exactly and   *)
(* rounded towards zero where the code stores them into an integer.        *)
(***************************************************************************)
EXTENDS Integers, FiniteSets, Sequences

\* ------------------------------------------------------------ bounds
\* millis() stays at or below MaxTime: no tick starts after it.
MaxTime == 3400

\* The telemetry is followed for MaxTicks iterations of loop().
MaxTicks == 3

\* The time one iteration of loop() can take, in ms.
TickDurations == {100, 500, 1000}

\* ------------------------------------------------- program constants
LOW == 0
HIGH == 1

\* byte mpo[8] and the id it is sent with.
mpo == <<1, 0, 0, 0, 0, 0, 0, 0>>
MpoId == 50
NoFrame == <<>>

\* No setContrast() call has reached the display yet.
NoCommand == 0 - 1

\* Initial values of the globals.
InitContrast == 80
InitC_Lowest == CHOOSE x \in {100, 180, 255} : \A y \in {100, 180, 255} : x <= y
InitC == 255
InitHits == 0
InitPrevious == HIGH
InitM == 10

VARIABLES
  sketch,       \* 1 or 2: the sketch that runs
  now,          \* millis() as read in the current tick
  buttonState,  \* the pin level sampled in the last tick
  previous,     \* byte previous
  millis_held,  \* long millis_held
  firstTime,    \* unsigned long firstTime
  hits,         \* page variable
  contrast,     \* sketch 1: int contrast
  c,            \* sketch 2: byte c
  applied,      \* argument of the last u8g2.setContrast() call
  powerSave,    \* argument of the last u8g2.setPowerSave() call
  page,         \* page function called in the last tick
  txFrame,      \* frame handed to CAN0.sendMsgBuf() in the last tick
  fx,           \* gesture branches executed in the last tick
  pinDownAt,    \* millis() of the tick that sampled the start of the press
  held,         \* hold time of the last completed press, -1 when none
  hitsWas,      \* hits at the start of the last tick
  rxId,         \* long unsigned int rxId
  len,          \* unsigned char len
  rxBuf,        \* unsigned char rxBuf[8]
  rV,           \* sketch 1: int rV
  rA,           \* sketch 1: float rA
  sc,           \* sketch 1: int sc
  s,            \* sketch 1: int s
  rawU,         \* sketch 2: unsigned int rawU
  rawI,         \* sketch 2: int rawI
  soc,          \* sketch 2: byte soc
  wrench,       \* sketch 2: byte wrench
  p,            \* int p (sketch 1), unsigned int p (sketch 2)
  m,            \* int m
  xx,           \* u8g2_uint_t xx: the needle angle handed to gauge()/power()
  drawn,        \* what the page function of the last tick put on the display
  polled,       \* the frame read from the controller in the last tick
  ticks,        \* the iterations of loop() the telemetry has been followed for
  limits        \* sketch 2: the Current Limit rows bms() printed in the last tick

telVars == <<rxId, len, rxBuf, rV, rA, sc, s, rawU, rawI, soc, wrench, p, m,
             xx, drawn, polled, ticks, limits>>

vars == <<sketch, now, buttonState, previous, millis_held, firstTime, hits,
          contrast, c, applied, powerSave, page, txFrame, fx,
          pinDownAt, held, hitsWas, telVars>>

\* -------------------------------------------------- button conditions
\* if (buttonState == HIGH && previous == LOW)
PressSampled(bs, prev) == bs = HIGH /\ prev = LOW

\* if (buttonState == LOW && previous == HIGH)
ReleaseSampled(bs, prev) == bs = LOW /\ prev = HIGH

\* if (millis_held > 200)
Qualifies(mh) == mh > 200

\* Sketch 1, the inner if (buttonState == LOW && previous == HIGH)
HitEdge_LevelOnly(bs, prev) == prev = HIGH
HitEdge(bs, prev) == bs = LOW /\ prev = HIGH

\* firstTime and millis_held after the two timing ifs of a tick that reads
\* millis() as t and the pin as bs.
FirstTimeAfter(bs, prev, ft, t) == IF PressSampled(bs, prev) THEN t ELSE ft

HeldAfter(bs, prev, ft, mh, t) ==
  IF ReleaseSampled(bs, prev) THEN t - FirstTimeAfter(bs, prev, ft, t) ELSE mh

\* ------------------------------------------------------ sketch 1 gestures
IsContrastPush1(mh) == mh >= 500 /\ mh < 1500

IsLongPush1_Strict(mh) == mh > 1500
IsLongPush1(mh) == mh >= 1500

IsShortPush1_UpToOneSecond(mh) == mh < 1000
IsShortPush1(mh) == mh < 500

NextContrast_Skip(ct) ==
  IF ct = 80 THEN 160 ELSE IF ct = 160 THEN 80 ELSE 80
NextContrast(ct) ==
  IF ct = 80 THEN 160 ELSE IF ct = 160 THEN 255 ELSE 80

PageStep1_NoWrap(h) == h + 1
PageStep1_WrapOff(h) == IF h < 3 THEN h + 1 ELSE 0
PageStep1(h) == IF h < 3 THEN h + 1 ELSE 1

\* The three ifs inside the hit, in the order of the code.
Gesture1(mh, h, ct) ==
  LET ct1 == IF IsContrastPush1(mh) THEN NextContrast(ct) ELSE ct
      h1  == IF IsLongPush1(mh) THEN 0 ELSE h
      h2  == IF IsShortPush1(mh) THEN PageStep1(h1) ELSE h1
  IN  [hits |-> h2, contrast |-> ct1,
       fx |-> (IF IsContrastPush1(mh) THEN {"contrast"} ELSE {})
              \cup (IF IsLongPush1(mh) THEN {"reset"} ELSE {})
              \cup (IF IsShortPush1(mh) THEN {"page"} ELSE {})]

\* The four page ifs at the end of loop().
Render1(h) ==
  IF h = 1 THEN "gauge"
  ELSE IF h = 2 THEN "bars"
  ELSE IF h = 3 THEN "text"
  ELSE IF h = 0 THEN "off"
  ELSE "none"

\* off() puts the display to sleep, gauge() wakes it, bars() and text() do
\* neither.
PowerSaveAfter_OffOnly(pg, ps) == IF pg = "off" THEN 1 ELSE ps
PowerSaveAfter(pg, ps) ==
  IF pg = "off" THEN 1 ELSE IF pg = "gauge" THEN 0 ELSE ps

\* ------------------------------------------------------ sketch 2 gestures
IsClearPush2(mh) == mh > 3000

IsContrastPush2(mh) == mh >= 500

NextC(cc) == IF cc = 255 THEN 100 ELSE IF cc = 100 THEN 180 ELSE 255

PageStep2(h) == IF h < 3 THEN h + 1 ELSE 1

\* The if / else if / else chain (1), (2), (3).
Gesture2(mh, h, cc) ==
  IF IsClearPush2(mh)
    THEN [hits |-> h, c |-> cc, tx |-> <<MpoId, mpo>>, fx |-> {"send"}]
  ELSE IF IsContrastPush2(mh)
    THEN [hits |-> h, c |-> NextC(cc), tx |-> NoFrame, fx |-> {"contrast"}]
  ELSE [hits |-> PageStep2(h), c |-> cc, tx |-> NoFrame, fx |-> {"page"}]

\* switch (hits)
Render2(h) ==
  IF h = 1 THEN "power" ELSE IF h = 2 THEN "cells" ELSE "bms"

\* --------------------------------------------------------- observers
\* What the pin did between the previous sample (buttonState) and this one.
EdgeOf(last, bs) ==
  IF last = LOW /\ bs = HIGH THEN "press"
  ELSE IF last = HIGH /\ bs = LOW THEN "release"
  ELSE "none"

\* The start of the press that is in progress, 0 when none is.
PinDownAfter(e, t) ==
  IF e = "press" THEN t ELSE IF e = "release" THEN 0 ELSE pinDownAt

HeldOf(e, t) ==
  IF e = "release" THEN t - pinDownAt ELSE IF e = "press" THEN 0 - 1 ELSE held

\* ------------------------------------------------------------ CAN frames
\* The ids the page functions compare rxId with.
Id03B == 59
Id6B2 == 1714
Id0A9 == 169
Id0BD == 189

\* const int id[4] = {0x03B, 0x6B2, 0x0A9, 0x0BD} of sketch 2, 0-based.
id(i) == <<Id03B, Id6B2, Id0A9, Id0BD>>[i + 1]

\* The frames the bus can deliver: an id and the data bytes (their number is
\* the length code of the frame).
Frames ==
  { [id |-> Id03B, data |-> <<1, 144, 0, 100, 0, 50>>],
    [id |-> Id03B, data |-> <<1, 144, 255, 156, 0, 50, 100, 0>>],
    [id |-> Id03B, data |-> <<2, 88, 23, 112, 0, 120, 120, 0>>],
    [id |-> Id6B2, data |-> <<14, 16, 15, 160, 0, 90, 0, 0>>],
    [id |-> Id6B2, data |-> <<15, 160, 15, 200, 90, 0, 0, 0>>],
    [id |-> Id0A9, data |-> <<6, 0, 50, 0, 30, 0, 100, 0>>],
    [id |-> Id0BD, data |-> <<1, 144, 0, 0, 20, 3, 0, 0>>],
    [id |-> Id0BD, data |-> <<193, 195, 0, 0, 0, 15, 0, 0>>] }

\* Frames the wider bus delivers besides: a fault report with other fault
\* bytes than the first one above, and a relay and limit report of a pack
\* that is charged through the charge relay alone.
MoreFrames ==
  { [id |-> Id0BD, data |-> <<0, 145, 0, 0, 20, 3, 0, 0>>],
    [id |-> Id0A9, data |-> <<2, 30, 15, 0, 30, 255, 156, 0>>] }

\* The value an uninitialised local can hold when it is read.
Indeterminate == {0, 85}

\* What a float to integer conversion can leave when the value does not fit
\* the integer.
Overflowed == {"wrap", "limit"}

\* The clock digits of a quotient that is not a number.
NoDigits == {}

\* ------------------------------------------------------------ arithmetic
\* 16-bit two's complement: the value of an int that holds the bits of x.
S16(x) == IF x % 65536 >= 32768 THEN (x % 65536) - 65536 ELSE x % 65536

\* (rxBuf[i] << 8) + rxBuf[i+1], i counted from 0 as in the code.
Word(buf, i) == buf[i + 1] * 256 + buf[i + 2]

\* n/d rounded towards zero, d > 0: the conversion of a float quotient to
\* an integer type.
Trunc(n, d) == IF n >= 0 THEN n \div d ELSE 0 - ((0 - n) \div d)

Abs(x) == IF x < 0 THEN 0 - x ELSE x

\* The abs() macro applied to an int: -(-32768) does not fit an int.
AbsInt(x) == S16(Abs(x))

\* A float with the integer part v stored into an int.
ToInt(v, o) ==
  IF v >= 0 - 32768 /\ v <= 32767 THEN v
  ELSE IF o = "wrap" THEN S16(v)
  ELSE IF v < 0 THEN 0 - 32768 ELSE 32767

\* A float with the integer part v stored into an unsigned int.
ToUInt(v, o) ==
  IF v >= 0 /\ v <= 65535 THEN v
  ELSE IF o = "wrap" THEN v % 65536
  ELSE IF v < 0 THEN 0 ELSE 65535

\* long map(x, 0, 10000, 0, 90)
Map(x) == Trunc(x * 90, 10000)

\* CAN0.readMsgBuf(&rxId, &len, rxBuf): the data bytes of the frame replace
\* the first len bytes of the buffer.
ReadMsgBuf(f, buf) ==
  [i \in 1..8 |-> IF i <= Len(f.data) THEN f.data[i] ELSE buf[i]]

\* ------------------------------------------------------- sketch 1 pages
\* The clock of gauge(): hours and minutes left at |current|/10, quantity q.
\* With no current the divisor is 0 and the quotient is not a number: no
\* digits stand for it.
Clock1(q, cur, o) ==
  IF cur = 0
    THEN [div0 |-> TRUE, h |-> NoDigits, mi |-> NoDigits]
    ELSE LET hh == ToInt(Trunc(q * 10, Abs(cur)), o)
         IN  [div0 |-> FALSE, h |-> hh,
              mi |-> ToInt(Trunc((q * 10 - hh * Abs(cur)) * 60, Abs(cur)), o)]

\* p = (abs((rA*rV)/100))
Watt1_PerThousand(a, v, o) == ToInt(Trunc(Abs(a * v), 1000), o)
Watt1(a, v, o) == ToInt(Trunc(Abs(a * v), 100), o)

\* gauge(): g is the globals it reads and writes, u the uninitialised fu.
Gauge(rid, buf, g, u, o) ==
  LET v  == IF rid = Id03B THEN S16(Word(buf, 0)) ELSE g.rV
      a  == IF rid = Id03B THEN S16(Word(buf, 2)) ELSE g.rA
      fu == IF rid = Id0BD THEN S16(Word(buf, 0)) ELSE u.fu
      m1 == Map(g.p)
      p1 == Watt1(a, v, o)
      q  == IF rid = Id03B THEN S16(Word(buf, 4)) ELSE g.sc
      cD == Clock1(q, a, o)
      cC == Clock1(200 - q, a, o)
  IN  [g |-> [g EXCEPT !.rV = v, !.rA = a, !.sc = q, !.p = p1, !.m = m1],
       d |-> [page |-> "gauge",
              shown |-> [watt |-> p1, soc |-> Trunc(q, 2)],
              icons |-> (IF a < 0 - 50 THEN {"bolt"} ELSE {})
                        \cup (IF a < 0 /\ a >= 0 - 50 THEN {"sun"} ELSE {})
                        \cup (IF q <= 50 /\ a > 0 THEN {"warning"} ELSE {})
                        \cup (IF fu # g.s THEN {"wrench"} ELSE {}),
              clock |-> [branch |-> IF a > 0 THEN "discharge" ELSE "charge",
                         div0 |-> cD.div0 \/ cC.div0,
                         h  |-> IF a > 0 THEN cD.h ELSE cC.h,
                         mi |-> IF a > 0 THEN cD.mi ELSE cC.mi],
              boxes |-> <<>>,
              flags |-> <<>>]]

\* The boxes of a bar page: h gives the height each bar would be drawn
\* with, on the bars whose drawBox() call is executed.
Boxes(h, on) == [b \in {x \in DOMAIN h : on[x]} |-> h[b]]

\* int pV = ((rV/10.0-43.2)*2.083)
PackBar(v) == Trunc((v - 432) * 2083, 10000)

\* int lCb = ((lC/1000.00)-2.7)*26.9, and the same for hC
CellBar(v) == Trunc((v - 2700) * 269, 10000)

\* int hBar = h*0.34
HealthBar(v) == Trunc(v * 34, 100)

\* float aBar = abs(rA)*0.0174, as the integer drawBox() takes
AmpBar1(a) == Trunc(Abs(a) * 174, 10000)

\* bars(): u holds the uninitialised lC, hC and h.
Bars(rid, buf, g, u, o) ==
  LET v  == IF rid = Id03B THEN S16(Word(buf, 0)) ELSE g.rV
      a  == IF rid = Id03B THEN S16(Word(buf, 2)) ELSE g.rA
      lC == IF rid = Id6B2 THEN S16(Word(buf, 0)) ELSE u.lC
      hC == IF rid = Id6B2 THEN S16(Word(buf, 2)) ELSE u.hC
      h  == IF rid = Id6B2 THEN S16(Word(buf, 4)) ELSE u.h
      ht == [pack |-> PackBar(v), low |-> CellBar(lC), high |-> CellBar(hC),
             health |-> HealthBar(h), amp |-> AmpBar1(a)]
      on == [pack |-> PackBar(v) > 0, low |-> CellBar(lC) > 0,
             high |-> CellBar(hC) > 0, health |-> h > 0,
             amp |-> Abs(a) > 60]
  IN  [g |-> [g EXCEPT !.rV = v, !.rA = a],
       d |-> [page |-> "bars",
              shown |-> [volt |-> v, amp |-> a, lC |-> lC, hC |-> hC,
                         h |-> h],
              icons |-> {},
              clock |-> <<>>,
              boxes |-> Boxes(ht, on),
              flags |-> <<>>]]

\* (x & mask) == mask for a one-bit mask
HasBit(x, mask) == ((x % 65536) \div mask) % 2 = 1

\* The fault bits in the order text() and bms() test them.
FaultBits ==
  <<256, 512, 1024, 2048, 4096, 8192, 16384, 32768,
    1, 2, 4, 8, 16, 32, 64, 128>>

\* The status bits in the order bms() tests them.
StatusBits == <<1, 2, 4, 8>>

\* The tests of text(): each fault bit of fu once.
FlagTests1(fu) ==
  [i \in 1..Len(FaultBits) |->
     [src |-> "fu", mask |-> FaultBits[i], set |-> HasBit(fu, FaultBits[i])]]

\* if (set && y <= 28) { drawStr(z, 16+y, label); y += 7; }
RowFits_Six(y) == y <= 35
RowFits(y) == y <= 28

\* The chain of ifs from test k on, y being the offset of the next row.
RECURSIVE DrawFlags(_, _, _)
DrawFlags(tests, k, y) ==
  IF k > Len(tests) THEN <<>>
  ELSE IF tests[k].set /\ RowFits(y)
    THEN <<[src |-> tests[k].src, mask |-> tests[k].mask, y |-> 16 + y]>>
         \o DrawFlags(tests, k + 1, y + 7)
  ELSE DrawFlags(tests, k + 1, y)

\* text(): u holds the uninitialised fu and ry; the other locals are
\* decoded like these two and only printed.
Text(rid, buf, g, u, o) ==
  LET fu == IF rid = Id0BD THEN S16(Word(buf, 0)) ELSE u.fu
      ry == IF rid = Id0A9 THEN buf[1] ELSE u.ry
  IN  [g |-> [g EXCEPT !.s = fu],
       d |-> [page |-> "text",
              shown |-> [fu |-> fu, ry |-> ry],
              icons |-> {},
              clock |-> <<>>,
              boxes |-> <<>>,
              flags |-> DrawFlags(FlagTests1(fu), 1, 0)]]

\* off() draws nothing.
Off(rid, buf, g, u, o) ==
  [g |-> g,
   d |-> [page |-> "off", shown |-> <<>>, icons |-> {}, clock |-> <<>>,
          boxes |-> <<>>, flags |-> <<>>]]

\* ------------------------------------------------------- sketch 2 pages
\* The clock of power(): quantity q divided by d/10.0, d the average
\* current or abs() of it.  With d = 0 the quotient is not a number: no
\* digits stand for it.
Clock2(q, d, o) ==
  IF d = 0
    THEN [div0 |-> TRUE, h |-> NoDigits, mi |-> NoDigits]
    ELSE LET sq == IF d < 0 THEN 0 - q ELSE q
             hh == ToInt(Trunc(sq * 10, Abs(d)), o)
         IN  [div0 |-> FALSE, h |-> hh,
              mi |-> ToInt(Trunc((sq * 10 - hh * Abs(d)) * 60, Abs(d)), o)]

\* p = (abs(rawI)/10.0)*rawU/10.0
Watt2(i, v, o) == ToUInt(Trunc(AbsInt(i) * v, 100), o)

\* power(): u holds the uninitialised fs, ry and avgI.
Power(rid, buf, g, u, o) ==
  LET v    == IF rid = id(0) THEN Word(buf, 0) ELSE g.rawU
      i    == IF rid = id(0) THEN S16(Word(buf, 2)) ELSE g.rawI
      q    == IF rid = id(0) THEN buf[7] ELSE g.soc
      fs   == IF rid = id(3) THEN buf[1] + buf[2] + buf[6] ELSE u.fs
      ry   == IF rid = id(2) THEN buf[1] ELSE u.ry
      avgI == IF rid = id(2) THEN S16(Word(buf, 5)) ELSE u.avgI
      m1   == Map(g.p)
      p1   == Watt2(i, v, o)
      ck   == IF avgI > 0 THEN Clock2(q, avgI, o)
              ELSE Clock2(200 - q, AbsInt(avgI), o)
  IN  [g |-> [g EXCEPT !.rawU = v, !.rawI = i, !.soc = q, !.p = p1,
                       !.m = m1],
       d |-> [page |-> "power",
              shown |-> [watt |-> p1, soc |-> q \div 2],
              icons |-> (IF i < 0 - 200 /\ HasBit(ry, 4)
                           THEN {"bolt"} ELSE {})
                        \cup (IF \/ avgI < 0 /\ HasBit(ry, 2) /\ ~HasBit(ry, 4)
                                 \/ avgI < 0 - 300 /\ HasBit(ry, 2)
                                    /\ HasBit(ry, 4)
                                THEN {"sun"} ELSE {})
                        \cup (IF q <= 40 /\ ~HasBit(ry, 4)
                                THEN {"warning"} ELSE {})
                        \cup (IF fs # g.wrench THEN {"wrench"} ELSE {}),
              clock |-> [branch |-> IF avgI > 0 THEN "discharge" ELSE "charge",
                         div0 |-> ck.div0, h |-> ck.h, mi |-> ck.mi],
              boxes |-> <<>>,
              flags |-> <<>>]]

\* float aBar = abs(rawI)*0.0137, as the integer drawBox() takes
AmpBar2(i) == Trunc(AbsInt(i) * 137, 10000)

\* if (hCb <= 35 && hCb > 0), and the same for lCb and hBar
BarInRange(b) == b <= 35 /\ b > 0

\* cells(): u holds the uninitialised hC, lC and h.
Cells(rid, buf, g, u, o) ==
  LET v  == Word(buf, 0)
      i  == S16(Word(buf, 2))
      lC == IF rid = id(1) THEN S16(Word(buf, 0)) ELSE u.lC
      hC == IF rid = id(1) THEN S16(Word(buf, 2)) ELSE u.hC
      h  == IF rid = id(1) THEN buf[5] ELSE u.h
      ht == [pack |-> PackBar(v), low |-> CellBar(lC), high |-> CellBar(hC),
             health |-> HealthBar(h),
             amp |-> IF AbsInt(i) > 250 THEN 34 ELSE AmpBar2(i)]
      on == [pack |-> TRUE, low |-> BarInRange(CellBar(lC)),
             high |-> BarInRange(CellBar(hC)),
             health |-> BarInRange(HealthBar(h)),
             amp |-> AbsInt(i) > 72]
  IN  [g |-> [g EXCEPT !.rawU = v, !.rawI = i],
       d |-> [page |-> "cells",
              shown |-> [volt |-> v, amp |-> i, lC |-> lC, hC |-> hC,
                         h |-> h],
              icons |-> {},
              clock |-> <<>>,
              boxes |-> Boxes(ht, on),
              flags |-> <<>>]]

\* The tests of bms(): each fault bit of fu once, then each status bit of st.
FlagTests2(fu, st) ==
  FlagTests1(fu)
  \o [i \in 1..Len(StatusBits) |->
        [src |-> "st", mask |-> StatusBits[i],
         set |-> HasBit(st, StatusBits[i])]]

\* bms(): u holds the uninitialised fu, st and ry; the other locals are
\* decoded like these and only printed.
Bms(rid, buf, g, u, o) ==
  LET ry == IF rid = id(2) THEN buf[1] ELSE u.ry
      cc == S16(Word(buf, 5))
      fu == IF rid = id(3) THEN S16(Word(buf, 0)) ELSE u.fu
      st == IF rid = id(3) THEN buf[6] ELSE u.st
      w  == IF rid = id(3) THEN (buf[1] + buf[2] + buf[6]) % 256
            ELSE g.wrench
  IN  [g |-> [g EXCEPT !.wrench = w],
       d |-> [page |-> "bms",
              shown |-> [fu |-> fu, st |-> st, cc |-> cc, ry |-> ry],
              icons |-> {},
              clock |-> <<>>,
              boxes |-> <<>>,
              flags |-> DrawFlags(FlagTests2(fu, st), 1, 0)]]

\* xx = m; if (xx < 45) xx += 135; else xx -= 45;  xx is an 8-bit unsigned
\* integer, as the parameter of gauge() and power() it is handed to.
Needle(mm) ==
  IF mm % 256 < 45 THEN (mm % 256) + 135 ELSE (mm % 256) - 45

\* The if / else if chain of bms() that places the cursor for dcl, as
\* <<x, y>>; dcl is a byte, so dcl >= 0 holds.
DchCursor(dcl) ==
  IF dcl < 10 THEN <<47, 55>>
  ELSE IF dcl >= 10 /\ dcl < 20 THEN <<42, 64>>
  ELSE IF dcl >= 20 /\ dcl < 100 THEN <<40, 55>>
  ELSE IF dcl >= 100 /\ dcl < 200 THEN <<36, 55>>
  ELSE <<34, 55>>

\* The same for ccl.
ChgCursor(ccl) ==
  IF ccl < 10 THEN <<47, 64>>
  ELSE IF ccl >= 10 /\ ccl < 20 THEN <<42, 64>>
  ELSE IF ccl >= 20 /\ ccl < 100 THEN <<40, 64>>
  ELSE <<36, 64>>

\* The Current Limit block of bms(): drawStr(0, 55, "DCH"), the cursor and
\* print(dcl); drawStr(0, 64, "CHG"), the cursor and print(ccl).
CurrentLimit(dcl, ccl) ==
  [dch |-> [label |-> <<0, 55>>, cursor |-> DchCursor(dcl), value |-> dcl],
   chg |-> [label |-> <<0, 64>>, cursor |-> ChgCursor(ccl), value |-> ccl]]

\* What the locals dcl and ccl of page function pg can hold when they are
\* read, as <<dcl, ccl>>: bytes 2 and 1 of a 0x0A9 frame, any value with
\* another rxId; <<>> on a page that has no such locals.
LimitsRead(pg, rid, buf) ==
  IF pg # "bms" THEN {<<>>}
  ELSE IF rid = id(2) THEN {<<buf[3], buf[2]>>}
  ELSE {<<d, k>> : d \in Indeterminate, k \in Indeterminate}

\* ------------------------------------------------------- picture loops
\* The display is driven through a one-page buffer: the do/while of a
\* picture loop runs the page function once per page of the display.
RenderPasses == 8

\* The uninitialised locals of the page functions.
Locals == {"fu", "lC", "hC", "h", "ry", "fs", "avgI", "st"}

LocalsOf(pg) ==
  IF pg = "gauge" THEN {"fu"}
  ELSE IF pg = "bars" THEN {"lC", "hC", "h"}
  ELSE IF pg = "text" THEN {"fu", "ry"}
  ELSE IF pg = "power" THEN {"fs", "ry", "avgI"}
  ELSE IF pg = "cells" THEN {"lC", "hC", "h"}
  ELSE IF pg = "bms" THEN {"fu", "st", "ry"}
  ELSE {}

\* The page functions that store a float into an integer.
OverflowedOn(pg) ==
  IF pg \in {"gauge", "power"} THEN Overflowed ELSE {"wrap"}

\* The locals the page functions assign when rxId is rid.
AssignedOn(rid) ==
  IF rid = Id6B2 THEN {"lC", "hC", "h"}
  ELSE IF rid = Id0A9 THEN {"ry", "avgI"}
  ELSE IF rid = Id0BD THEN {"fu", "fs", "st"}
  ELSE {}

\* What the locals of page function pg can hold when they are read: a
\* local that is not assigned with this rxId holds any value.
Uninit(pg, rid) ==
  { [k \in Locals |-> IF k \in DOMAIN w THEN w[k] ELSE 0] :
      w \in [LocalsOf(pg) \ AssignedOn(rid) -> Indeterminate] }

Call1(pg, rid, buf, g, u, o) ==
  IF pg = "gauge" THEN Gauge(rid, buf, g, u, o)
  ELSE IF pg = "bars" THEN Bars(rid, buf, g, u, o)
  ELSE IF pg = "text" THEN Text(rid, buf, g, u, o)
  ELSE Off(rid, buf, g, u, o)

\* switch (hits) { case 1: power(xx); case 2: cells(); default: bms(); }
Call2_DefaultOnly(pg, rid, buf, g, u, o) == Bms(rid, buf, g, u, o)
Call2(pg, rid, buf, g, u, o) ==
  IF pg = "power" THEN Power(rid, buf, g, u, o)
  ELSE IF pg = "cells" THEN Cells(rid, buf, g, u, o)
  ELSE Bms(rid, buf, g, u, o)

\* firstPage(); do { page function } while (nextPage()); with n passes
\* to go.  A pass that leaves the globals as they are is repeated by all
\* the passes after it.
RECURSIVE Picture1(_, _, _, _, _, _, _)
Picture1(pg, rid, buf, g, u, o, n) ==
  IF n <= 1 THEN Call1(pg, rid, buf, g, u, o)
  ELSE CHOOSE r \in { IF x.g = g THEN x
                        ELSE Picture1(pg, rid, buf, x.g, u, o, n - 1) :
                        x \in {Call1(pg, rid, buf, g, u, o)} } : TRUE

RECURSIVE Picture2(_, _, _, _, _, _, _)
Picture2(pg, rid, buf, g, u, o, n) ==
  IF n <= 1 THEN Call2(pg, rid, buf, g, u, o)
  ELSE CHOOSE r \in { IF x.g = g THEN x
                        ELSE Picture2(pg, rid, buf, x.g, u, o, n - 1) :
                        x \in {Call2(pg, rid, buf, g, u, o)} } : TRUE

\* The globals of the telemetry of each sketch.
Globals1 == [rV |-> rV, rA |-> rA, sc |-> sc, s |-> s, p |-> p, m |-> m]
Globals2 ==
  [rawU |-> rawU, rawI |-> rawI, soc |-> soc, wrench |-> wrench,
   p |-> p, m |-> m]

\* Nothing has been drawn.
Blank ==
  [page |-> "none", shown |-> <<>>, icons |-> {}, clock |-> <<>>,
   boxes |-> <<>>, flags |-> <<>>]

ZeroBuf == [i \in 1..8 |-> 0]

\* if (!digitalRead(CAN0_INT)) CAN0.readMsgBuf(&rxId, &len, rxBuf); f is
\* the frame the controller holds, NoFrame when the interrupt pin is high.
PollId(f) == IF f = NoFrame THEN rxId ELSE f.id
PollLen(f) == IF f = NoFrame THEN len ELSE Len(f.data)
PollBuf(f) == IF f = NoFrame THEN rxBuf ELSE ReadMsgBuf(f, rxBuf)

\* What the button block of a tick can do to hits.
HitsAfter1(gest) ==
  IF gest = "page" THEN PageStep1(hits)
  ELSE IF gest = "reset" THEN 0
  ELSE hits

HitsAfter2(gest) == IF gest = "page" THEN PageStep2(hits) ELSE hits

\* ------------------------------------------------------------- actions
Init ==
  /\ sketch \in {1, 2}
  /\ now = 0
  /\ buttonState = LOW
  /\ previous = InitPrevious
  /\ millis_held = 0
  /\ firstTime = 0
  /\ hits = InitHits
  /\ contrast = InitContrast
  /\ c = InitC
  /\ applied = IF sketch = 1 THEN InitContrast ELSE NoCommand
  /\ powerSave = 0
  /\ page = "none"
  /\ txFrame = NoFrame
  /\ fx = {}
  /\ pinDownAt = 0
  /\ held = 0 - 1
  /\ hitsWas = InitHits
  /\ rxId = 0
  /\ len = 0
  /\ rxBuf = ZeroBuf
  /\ rV = 0
  /\ rA = 0
  /\ sc = 0
  /\ s = 0
  /\ rawU = 0
  /\ rawI = 0
  /\ soc = 0
  /\ wrench = 0
  /\ p = 0
  /\ m = InitM
  /\ xx = 0
  /\ drawn = Blank
  /\ polled = NoFrame
  /\ ticks = 0
  /\ limits = <<>>

\* One iteration of loop() of sketch 1 that takes d ms and samples the pin
\* as bs.
Tick1(d, bs) ==
  LET t  == now + d
      ft == FirstTimeAfter(bs, previous, firstTime, t)
      mh == HeldAfter(bs, previous, firstTime, millis_held, t)
      g  == IF Qualifies(mh) /\ HitEdge(bs, previous)
              THEN Gesture1(mh, hits, contrast)
              ELSE [hits |-> hits, contrast |-> contrast, fx |-> {}]
      e  == EdgeOf(buttonState, bs)
  IN  /\ sketch = 1
      /\ t <= MaxTime
      /\ now' = t
      /\ buttonState' = bs
      /\ firstTime' = ft
      /\ millis_held' = mh
      /\ previous' = IF Qualifies(mh) THEN bs ELSE previous
      /\ hits' = g.hits
      /\ contrast' = g.contrast
      /\ fx' = g.fx
      /\ page' = Render1(g.hits)
      /\ powerSave' = PowerSaveAfter(Render1(g.hits), powerSave)
      /\ txFrame' = NoFrame
      /\ pinDownAt' = PinDownAfter(e, t)
      /\ held' = HeldOf(e, t)
      /\ hitsWas' = hits
      /\ UNCHANGED <<sketch, c, applied, telVars>>

\* One iteration of loop() of sketch 2.
Tick2(d, bs) ==
  LET t  == now + d
      ft == FirstTimeAfter(bs, previous, firstTime, t)
      mh == HeldAfter(bs, previous, firstTime, millis_held, t)
      g  == IF Qualifies(mh)
              THEN Gesture2(mh, hits, c)
              ELSE [hits |-> hits, c |-> c, tx |-> NoFrame, fx |-> {}]
      e  == EdgeOf(buttonState, bs)
  IN  /\ sketch = 2
      /\ t <= MaxTime
      /\ now' = t
      /\ applied' = c
      /\ buttonState' = bs
      /\ firstTime' = ft
      /\ millis_held' = mh
      /\ previous' = IF Qualifies(mh) THEN bs ELSE previous
      /\ hits' = g.hits
      /\ c' = g.c
      /\ txFrame' = g.tx
      /\ fx' = g.fx
      /\ page' = Render2(g.hits)
      /\ pinDownAt' = PinDownAfter(e, t)
      /\ held' = HeldOf(e, t)
      /\ hitsWas' = hits
      /\ UNCHANGED <<sketch, contrast, powerSave, telVars>>

Loop1 == \E d \in TickDurations, bs \in {LOW, HIGH} : Tick1(d, bs)

Loop2 == \E d \in TickDurations, bs \in {LOW, HIGH} : Tick2(d, bs)

Next == Loop1 \/ Loop2

Spec == Init /\ [][Next]_vars

\* ------------------------------------------------------ telemetry ticks
\* One iteration of loop() of sketch 1 as the telemetry sees it: the frame
\* f is polled, the button block leaves hits as gest says, and the page of
\* hits is drawn with u in its uninitialised locals and o as the outcome
\* of a conversion that overflows.  The timing of the button is the
\* subject of Tick1.
TelTick1(f, gest, u, o) ==
  LET h1 == HitsAfter1(gest)
      pg == Render1(h1)
  IN  /\ sketch = 1
      /\ ticks < MaxTicks
      /\ \E rid \in {PollId(f)}, buf \in {PollBuf(f)}, g \in {Globals1} :
         \E r \in {Picture1(pg, rid, buf, g, u, o, RenderPasses)} :
           /\ ticks' = ticks + 1
           /\ rxId' = PollId(f)
           /\ len' = PollLen(f)
           /\ rxBuf' = PollBuf(f)
           /\ polled' = f
           /\ hits' = h1
           /\ hitsWas' = hits
           /\ fx' = IF gest = "none" THEN {} ELSE {gest}
           /\ page' = pg
           /\ powerSave' = PowerSaveAfter(pg, powerSave)
           /\ rV' = r.g.rV
           /\ rA' = r.g.rA
           /\ sc' = r.g.sc
           /\ s' = r.g.s
           /\ p' = r.g.p
           /\ m' = r.g.m
           /\ xx' = Needle(m)
           /\ drawn' = r.d
           /\ UNCHANGED <<sketch, now, buttonState, previous, millis_held,
                          firstTime, contrast, c, applied, txFrame, pinDownAt,
                          held, rawU, rawI, soc, wrench>>

\* The same for sketch 2.
TelTick2(f, gest, u, o) ==
  LET h1 == HitsAfter2(gest)
      pg == Render2(h1)
  IN  /\ sketch = 2
      /\ ticks < MaxTicks
      /\ \E rid \in {PollId(f)}, buf \in {PollBuf(f)}, g \in {Globals2} :
         \E r \in {Picture2(pg, rid, buf, g, u, o, RenderPasses)} :
           /\ ticks' = ticks + 1
           /\ rxId' = PollId(f)
           /\ len' = PollLen(f)
           /\ rxBuf' = PollBuf(f)
           /\ polled' = f
           /\ hits' = h1
           /\ hitsWas' = hits
           /\ fx' = IF gest = "none" THEN {} ELSE {gest}
           /\ page' = pg
           /\ applied' = c
           /\ rawU' = r.g.rawU
           /\ rawI' = r.g.rawI
           /\ soc' = r.g.soc
           /\ wrench' = r.g.wrench
           /\ p' = r.g.p
           /\ m' = r.g.m
           /\ xx' = Needle(m)
           /\ drawn' = r.d
           /\ UNCHANGED <<sketch, now, buttonState, previous, millis_held,
                          firstTime, contrast, c, powerSave, txFrame, pinDownAt,
                          held, rV, rA, sc, s>>

TelLoop1 ==
  \E f \in Frames \cup {NoFrame}, gest \in {"none", "page", "reset"} :
    \E u \in Uninit(Render1(HitsAfter1(gest)), PollId(f)),
       o \in OverflowedOn(Render1(HitsAfter1(gest))) :
      TelTick1(f, gest, u, o) /\ UNCHANGED limits

TelLoop2 ==
  \E f \in Frames \cup {NoFrame}, gest \in {"none", "page"} :
    \E u \in Uninit(Render2(HitsAfter2(gest)), PollId(f)),
       o \in OverflowedOn(Render2(HitsAfter2(gest))) :
      TelTick2(f, gest, u, o) /\ UNCHANGED limits

TelNext == TelLoop1 \/ TelLoop2

SpecTel == Init /\ [][TelNext]_vars

\* ------------------------------------------------------ the wider bus
\* The telemetry ticks with the frames of MoreFrames on the bus as well;
\* the tick of sketch 2 also records the Current Limit rows of bms(), lim
\* being what its locals dcl and ccl hold.
WideLoop1 ==
  \E f \in Frames \cup MoreFrames \cup {NoFrame},
     gest \in {"none", "page", "reset"} :
    \E u \in Uninit(Render1(HitsAfter1(gest)), PollId(f)),
       o \in OverflowedOn(Render1(HitsAfter1(gest))) :
      TelTick1(f, gest, u, o) /\ UNCHANGED limits

WideLoop2 ==
  \E f \in Frames \cup MoreFrames \cup {NoFrame}, gest \in {"none", "page"} :
    \E u \in Uninit(Render2(HitsAfter2(gest)), PollId(f)),
       o \in OverflowedOn(Render2(HitsAfter2(gest))),
       lim \in LimitsRead(Render2(HitsAfter2(gest)), PollId(f), PollBuf(f)) :
      /\ TelTick2(f, gest, u, o)
      /\ limits' = IF lim = <<>> THEN <<>>
                              ELSE CurrentLimit(lim[1], lim[2])

WideNext == WideLoop1 \/ WideLoop2

SpecWide == Init /\ [][WideNext]_vars

\* ----------------------------------------------------- claim vocabulary
\* The tick that leads to the primed state sampled the pin released after
\* sampling it pressed.
ReleaseTick == buttonState = HIGH /\ buttonState' = LOW

\* The contrast level of the sketch that runs.
Level == IF sketch = 1 THEN contrast ELSE c

LevelSet == IF sketch = 1 THEN {80, 160, 255} ELSE {100, 180, 255}

Lowest(S) == CHOOSE x \in S : \A y \in S : x <= y

Highest(S) == CHOOSE x \in S : \A y \in S : x >= y

\* The next value of S in ascending order, the lowest after the highest.
Ascend(S, v) ==
  IF v = Highest(S) THEN Lowest(S) ELSE Lowest({x \in S : x > v})

\* The page the value of hits selects.
ActivePage == IF sketch = 1 THEN Render1(hits) ELSE Render2(hits)

PageStepOf(h) == IF sketch = 1 THEN PageStep1(h) ELSE PageStep2(h)

ThreeAdvances(h) == PageStepOf(PageStepOf(PageStepOf(h)))

\* --------------------------------------------------------------- C1
\* C1: a press released after less than 200 ms has no gesture effect, on the
\* tick that samples the release and on every later tick up to the next
\* press: hits, the contrast level and the fault-clear send are unaffected.
C1_ShortPressHasNoEffect ==
  [][(held' >= 0 /\ held' < 200)
       => (hits' = hits /\ contrast' = contrast /\ c' = c
           /\ txFrame' = NoFrame)]_vars

\* --------------------------------------------------------------- C2
\* C2: in sketch 2 a completed press-and-release applies its gesture exactly
\* once, and on every tick that samples no release hits and c keep their
\* values and no frame is sent.
C2_GestureOncePerRelease ==
  [][sketch = 2 =>
       /\ (ReleaseTick /\ held' > 200) => Cardinality(fx') = 1
       /\ ~ReleaseTick => (hits' = hits /\ c' = c /\ txFrame' = NoFrame)]_vars

\* --------------------------------------------------------------- C3
\* C3: in sketch 1, on every tick that samples the pin pressed, hits and
\* contrast keep their values, however long the button has been held.
C3_NoEffectWhilePressed ==
  [][(sketch = 1 /\ buttonState' = HIGH)
       => (hits' = hits /\ contrast' = contrast /\ fx' = {})]_vars

\* The button has been down for 1500 ms or more, sketch 1 has a qualifying
\* millis_held and shows a page.
C3_HeldLongStillPressed ==
  /\ sketch = 1
  /\ buttonState = HIGH
  /\ previous = HIGH
  /\ pinDownAt > 0
  /\ now - pinDownAt >= 1500
  /\ millis_held > 200
  /\ hits \in 1..3

\* --------------------------------------------------------------- C4
\* C4: in sketch 1 a release with 200 <= held < 500 applies exactly one page
\* advance and nothing else.
C4_ShortPushAdvancesPage ==
  [][(sketch = 1 /\ ReleaseTick /\ held' >= 200 /\ held' < 500)
       => (fx' = {"page"} /\ hits' = (IF hits = 3 THEN 1 ELSE hits + 1)
           /\ contrast' = contrast)]_vars

\* --------------------------------------------------------------- C5
\* C5: in sketch 1 a release with 500 <= held < 1500 advances contrast by one
\* step of 80 -> 160 -> 255 -> 80 and leaves hits unchanged.
C5_MediumPushCyclesContrast ==
  [][(sketch = 1 /\ ReleaseTick /\ held' >= 500 /\ held' < 1500)
       => (fx' = {"contrast"}
           /\ contrast' = Ascend({80, 160, 255}, contrast)
           /\ hits' = hits)]_vars

\* --------------------------------------------------------------- C6
\* C6 as amended: a release with held >= 1500 in sketch 1 sets hits to 0 and
\* leaves contrast; a release with held > 3000 in sketch 2 sends the frame
\* 0x32 / 01 00 00 00 00 00 00 00 and leaves hits and c.
C6_LongPushAction ==
  [][/\ (sketch = 1 /\ ReleaseTick /\ held' >= 1500)
          => (fx' = {"reset"} /\ hits' = 0 /\ contrast' = contrast)
     /\ (sketch = 2 /\ ReleaseTick /\ held' > 3000)
          => (fx' = {"send"} /\ txFrame' = <<50, <<1, 0, 0, 0, 0, 0, 0, 0>>>>
              /\ hits' = hits /\ c' = c)]_vars

\* Sketch 2 has sent the fault-clear frame for a press of more than 3000 ms.
C6_ClearFrameSent ==
  /\ sketch = 2
  /\ held > 3000
  /\ buttonState = LOW
  /\ fx = {"send"}
  /\ txFrame # NoFrame

\* C6 as stated: held >= long_threshold (1500 ms, 3000 ms), and in particular
\* 2000 ms in either sketch, is the long-hold action.
C6_LongPushFromThreshold ==
  [][/\ (sketch = 1 /\ ReleaseTick /\ held' >= 1500)
          => (fx' = {"reset"} /\ hits' = 0 /\ contrast' = contrast)
     /\ (sketch = 2 /\ ReleaseTick /\ (held' >= 3000 \/ held' = 2000))
          => (fx' = {"send"} /\ txFrame' = <<50, <<1, 0, 0, 0, 0, 0, 0, 0>>>>
              /\ hits' = hits /\ c' = c)]_vars

\* --------------------------------------------------------------- C7
\* C7 as amended: at the start of the first tick sketch 1 is on the off page
\* with the lowest contrast, 80; sketch 2 has hits = 0, which selects the bms
\* page, and the highest contrast, 255.
C7_PowerUpState ==
  now = 0 =>
    /\ sketch = 1 =>
         (hits = 0 /\ ActivePage = "off" /\ contrast = Lowest(LevelSet))
    /\ sketch = 2 =>
         (hits = 0 /\ ActivePage = "bms" /\ c = Highest(LevelSet))

\* Sketch 2 before its first tick.
C7_Sketch2PowerUp == sketch = 2 /\ now = 0 /\ page = "none"

\* C7 as stated: the active page is Off or Gauge/Power and the contrast is
\* the lowest value of the sketch's set.
C7_PowerUpLowestContrast ==
  now = 0 =>
    (ActivePage \in {"off", "gauge", "power"} /\ Level = Lowest(LevelSet))

\* --------------------------------------------------------------- C8
\* C8 as amended: a page advance moves hits to the next of 1, 2, 3, with 1
\* after 3 (and 1 after the initial 0), and from every value 1, 2, 3 three
\* advances lead back to it; from 0 they lead to 3.
C8_PageCycleOfThree ==
  [][/\ "page" \in fx' =>
          hits' = (IF hits \in 1..3 THEN (hits % 3) + 1 ELSE 1)
     /\ hits' \in 1..3 => ThreeAdvances(hits') = hits'
     /\ hits' = 0 => ThreeAdvances(hits') = 3]_vars

\* A page advance has wrapped from the last page to the first.
C8_Wrapped == hitsWas = 3 /\ hits = 1 /\ fx = {"page"}

\* C8 as stated: from every reachable value of hits, the initial one
\* included, three page advances lead back to it.
C8_PageCycleFromEveryValue == ThreeAdvances(hits) = hits

\* --------------------------------------------------------------- C9
\* C9: the contrast level is always in the sketch's three-value set, a
\* contrast cycle moves it to the next value in ascending order with
\* wrap-around, nothing else moves it, and three cycles lead back.
C9_ContrastCycleOrder ==
  [][/\ Level \in LevelSet
     /\ Level' \in LevelSet
     /\ "contrast" \in fx' => Level' = Ascend(LevelSet, Level)
     /\ "contrast" \notin fx' => Level' = Level
     /\ NextContrast(NextContrast(NextContrast(contrast'))) = contrast'
     /\ NextC(NextC(NextC(c'))) = c']_vars

\* Sketch 1 has wrapped from 255 to 80.
C9_ContrastWrapped == sketch = 1 /\ fx = {"contrast"} /\ contrast = 80

\* --------------------------------------------------------------- C10
\* C10: at the end of every tick that did not itself cycle the contrast, the
\* level last sent to the display with setContrast() is the stored level.
C10_ContrastReachesDisplay ==
  (now > 0 /\ "contrast" \notin fx) => applied = Level

\* -------------------------------------------- claim vocabulary, telemetry
\* The fields of a pack frame (id 0x03B): voltage, current, and the state
\* of charge where the layout of each sketch has it.
FrameVolt(f) == Word(f.data, 0)
FrameAmp(f) == S16(Word(f.data, 2))
FrameSoc(f) == IF sketch = 1 THEN Word(f.data, 4) ELSE f.data[7]

\* The tick that led to this state polled a frame with this id.
Polled(i) == polled # NoFrame /\ polled.id = i

\* The same for the tick that leads to the primed state.
PolledNext(i) == polled' # NoFrame /\ polled'.id = i

\* The stored pack voltage, current and state of charge.
StoredVolt == IF sketch = 1 THEN rV ELSE rawU
StoredAmp == IF sketch = 1 THEN rA ELSE rawI
StoredSoc == IF sketch = 1 THEN sc ELSE soc

\* C11: at the end of a tick that polled a complete frame with id 0x03B the
\* stored pack voltage, current and state of charge are the fields of that
\* frame, on every page.
C11_StoreOverwrittenOnReceipt ==
  (Polled(Id03B) /\ Len(polled.data) = 8) =>
    /\ StoredVolt = FrameVolt(polled)
    /\ StoredAmp = FrameAmp(polled)
    /\ StoredSoc = FrameSoc(polled)

\* C12: a tick that polls a frame with another id than 0x03B leaves the
\* stored pack voltage and current as they were, in both sketches and on
\* every page.
C12_PackChangesOnlyOn03B ==
  [][(polled' # NoFrame /\ polled'.id # Id03B) =>
       (rV' = rV /\ rA' = rA /\ rawU' = rawU /\ rawI' = rawI)]_vars

\* The number of leading data bytes the page functions of the running
\* sketch read from a frame with id i.
BytesRead(i) ==
  IF sketch = 1
    THEN IF i = Id03B THEN 6 ELSE IF i = Id6B2 THEN 6
         ELSE IF i = Id0A9 THEN 8 ELSE 5
    ELSE IF i = Id03B THEN 7 ELSE IF i = Id6B2 THEN 5
         ELSE IF i = Id0A9 THEN 7 ELSE 6

\* C13: a tick that polls a frame with fewer data bytes than the layout of
\* its id reads changes no stored telemetry value, so no byte an earlier
\* frame left in rxBuf is decoded as a field of it.
C13_ShortFrameDropped ==
  [][(polled' # NoFrame /\ Len(polled'.data) < BytesRead(polled'.id)) =>
       UNCHANGED <<rV, rA, sc, s, rawU, rawI, soc, wrench>>]_vars

\* C14: on the bars and cells pages the low cell voltage, high cell voltage
\* and health shown after a 0x6B2 frame are still shown, unchanged, by the
\* next tick when that tick polls a 0x03B frame.
C14_CellRecordKeptAcrossPackFrame ==
  [][(/\ page \in {"bars", "cells"}
      /\ page' = page
      /\ Polled(Id6B2)
      /\ PolledNext(Id03B)) =>
       /\ drawn'.shown.lC = drawn.shown.lC
       /\ drawn'.shown.hC = drawn.shown.hC
       /\ drawn'.shown.h = drawn.shown.h]_vars

\* C15: after a gauge or power render of a tick that polled a 0x03B frame
\* the watt value p is |current| * voltage / 100 of the fields of the frame,
\* rounded towards zero, and so never negative and the same for a current
\* of +x and -x.
C15_WattIsProductOfFields ==
  (page \in {"gauge", "power"} /\ Polled(Id03B)) =>
    /\ p = (Abs(FrameAmp(polled)) * FrameVolt(polled)) \div 100
    /\ p >= 0

\* The payload of the end-to-end scenario: voltage 400, current 100, state
\* of charge 50.
ScenarioData == <<1, 144, 0, 100, 0, 50>>

ScenarioRendered ==
  /\ page \in {"gauge", "power"}
  /\ Polled(Id03B)
  /\ polled.data = ScenarioData

C17_ClockNeverDividesByZero ==
  page \in {"gauge", "power"} => ~drawn.clock.div0

\* The bars of the bars and cells pages.
Bar == {"pack", "low", "high", "health", "amp"}

\* The fill height bar b was drawn with in the last tick, 0 when no box
\* was drawn for it.
FillHeight(d, b) == IF b \in DOMAIN d.boxes THEN d.boxes[b] ELSE 0

\* The measured value bar b stands for.
Measured(d, b) ==
  IF b = "pack" THEN d.shown.volt
  ELSE IF b = "low" THEN d.shown.lC
  ELSE IF b = "high" THEN d.shown.hC
  ELSE IF b = "health" THEN d.shown.h
  ELSE Abs(d.shown.amp)

\* C18: on the bars and cells pages every box drawn for a bar has a height
\* from 0 to 35.
C18_BarHeightWithinSpan ==
  page \in {"bars", "cells"} =>
    \A b \in DOMAIN drawn.boxes : drawn.boxes[b] \in 0..35

\* C19: from one render of the bars or cells page to the next, a bar whose
\* measured value did not decrease is not drawn shorter and does not
\* disappear.
C19_BarMonotonic ==
  [][(page \in {"bars", "cells"} /\ page' = page) =>
       \A b \in Bar :
         Measured(drawn', b) >= Measured(drawn, b) =>
           FillHeight(drawn', b) >= FillHeight(drawn, b)]_vars

\* The flag bits in the order of the claim: fault bits 0x0100..0x8000, then
\* 0x0001..0x0080, then in sketch 2 the status bits 0x01..0x08.
FlagOrder ==
  [i \in 1..16 |-> [src |-> "fu", mask |-> IF i <= 8 THEN 2 ^ (i + 7)
                                           ELSE 2 ^ (i - 9)]]
  \o (IF sketch = 2 THEN [i \in 1..4 |-> [src |-> "st", mask |-> 2 ^ (i - 1)]]
      ELSE <<>>)

\* Bit e.mask of the field e.src shown by the page is set.
FlagSet(e) ==
  LET field == IF e.src = "fu" THEN drawn.shown.fu ELSE drawn.shown.st
  IN  (field % 65536) % (2 * e.mask) >= e.mask

SetFlags == SelectSeq(FlagOrder, FlagSet)

FirstFive(q) == SubSeq(q, 1, IF Len(q) < 5 THEN Len(q) ELSE 5)

Diagnostics == {"text", "bms"}
Dial == {"gauge", "power"}

\* The tick that leads to the primed state brought no fault report other
\* than the one the receive buffer holds already.
FaultSumUnchanged ==
  \/ polled' = NoFrame
  \/ polled'.id # Id0BD
  \/ rxId = Id0BD /\ ReadMsgBuf(polled', rxBuf) = rxBuf

\* C21: once the diagnostics page (text / bms) has been rendered with the
\* fault report of the BMS, a following render of gauge / power does not
\* draw the wrench icon as long as no different fault report has arrived,
\* whatever other frame is received.
C21_WrenchOffAfterDiagnostics ==
  [][ ( /\ drawn.page \in Diagnostics
        /\ rxId = Id0BD
        /\ drawn'.page \in Dial
        /\ FaultSumUnchanged )
      => "wrench" \notin drawn'.icons ]_vars

\* -------------------------------------------------------------- C22
\* The fault baseline the wrench icon is compared with.
Baseline == IF sketch = 1 THEN s ELSE wrench

\* The fault sum of a fault report as the diagnostics page stores it.
FaultSumOf(f) ==
  IF sketch = 1 THEN S16(Word(f.data, 0))
  ELSE (f.data[1] + f.data[2] + f.data[6]) % 256

C23_NeedleOfThisTickFrame ==
  [][ (PolledNext(Id03B) /\ page' \in Dial)
      => /\ drawn'.shown.watt = p'
         /\ xx' = Needle(Map(p')) ]_vars

\* -------------------------------------------------------------- C24
\* The state the page functions keep from one tick to the next.
Persistent == <<StoredVolt, StoredAmp, StoredSoc, p, m, Baseline>>

\* C24: a tick that polls no frame and applies no gesture, on the gauge /
\* power page rendered by the tick before it, leaves the persistent state
\* (voltage, current, state of charge, p, m, fault baseline) as it was and
\* draws the values the tick before drew: the same numbers and the same
\* needle angle.
C24_RenderIdempotent ==
  [][ ( /\ page \in Dial
        /\ page' = page
        /\ polled' = NoFrame
        /\ fx' = {} )
      => /\ Persistent' = Persistent
         /\ drawn'.shown = drawn.shown
         /\ xx' = xx ]_vars

NeverPressed == buttonState = LOW /\ held = 0 - 1

\* C26: as long as the button has never been pressed, hits and the contrast
\* level have their initial values and the last tick sent no frame.
C26_IdleKeepsPowerUpState ==
  NeverPressed =>
    /\ hits = InitHits
    /\ Level = (IF sketch = 1 THEN InitContrast ELSE InitC)
    /\ txFrame = NoFrame

\* -------------------------------------------------------------- C27
\* C27: in sketch 1 the duration that classifies a release is the time from
\* the tick that sampled the start of that press to the tick that samples
\* its release, also for a press that follows a press of less than 200 ms
\* (firstTime > 0: the start of a press has been recorded since power-up).
C27_DurationOfSamePress ==
  [][ (sketch = 1 /\ firstTime > 0 /\ ReleaseTick /\ fx' # {})
      => millis_held' = held' ]_vars

C29_AsleepIffOff ==
  (sketch = 1 /\ now > 0) =>
    /\ powerSave = 1 <=> hits = 0
    /\ powerSave = 1 <=> page = "off"

\* The text page is shown on a display that is awake: every run puts the
\* display to sleep on its first tick (hits = 0), and the page has been
\* advanced from off through gauge and bars since.
C29_TextShownAwake ==
  /\ sketch = 1
  /\ page = "text"
  /\ hitsWas = 2
  /\ fx = {"page"}
  /\ powerSave = 0

\* -------------------------------------------------------------- C30
\* C30: in sketch 2, when the bms page has been rendered with a 0x0BD frame
\* as the latest frame and the next tick renders the power page with that
\* frame still the latest, the wrench icon is not drawn, whatever the
\* bytes 0, 1 and 5 of the frame are.
C30_AcknowledgedFrameNoWrench ==
  [][ ( /\ sketch = 2
        /\ drawn.page = "bms"
        /\ rxId = Id0BD
        /\ polled' = NoFrame
        /\ page' = "power" )
      => "wrench" \notin drawn'.icons ]_vars

\* -------------------------------------------------------------- C31
\* Bytes 0, 1 and 5 of a fault report: the fault bits and the status bits.
FaultTriple(buf) == <<buf[1], buf[2], buf[6]>>

\* C31: in sketch 2, when the bms page has been rendered with a 0x0BD frame
\* as the latest frame and the next tick renders the power page on a
\* 0x0BD frame whose bytes 0, 1, 5 are not those of that frame, the wrench
\* icon is drawn.
C31_ChangedFaultsShowWrench ==
  [][ ( /\ sketch = 2
        /\ drawn.page = "bms"
        /\ rxId = Id0BD
        /\ page' = "power"
        /\ PolledNext(Id0BD)
        /\ FaultTriple(rxBuf') # FaultTriple(rxBuf) )
      => "wrench" \in drawn'.icons ]_vars

\* -------------------------------------------------------------- C32
\* The icons gauge() and power() draw at x = 4, y = 39 or 40.
StatusIcons == {"bolt", "sun", "warning"}

\* C32: a render of the gauge / power page draws at most one of the
\* lightning bolt, the sun and the low-charge warning.
C32_OneStatusIcon ==
  drawn.page \in Dial => Cardinality(drawn.icons \cap StatusIcons) <= 1

\* -------------------------------------------------------------- C33
\* C33: on the bms page the discharge current limit is printed on the row
\* of the DCH label (y = 55) and the charge current limit on the row of
\* the CHG label (y = 64).
C33_LimitsOnTheirRows ==
  limits # <<>> =>
    /\ limits.dch.cursor[2] = 55
    /\ limits.dch.cursor[2] = limits.dch.label[2]
    /\ limits.chg.cursor[2] = 64
    /\ limits.chg.cursor[2] = limits.chg.label[2]
====
